---- MODULE Spec2Model ----
(***************************************************************************)
(* Model of the journal-guide web application.                             *)
(*                                                                         *)
(*   src/author_informatinons/app.py   the sqlite3 application (all routes)*)
(*   src/app.py                        the SQLAlchemy port (auth, list,    *)
(*                                     detail, submit and delete only)     *)
(*                                                                         *)
(* The variable impl says which of the two applications is deployed; it is *)
(* chosen in Init and never changes.  Requests run concurrently (Flask     *)
(* serves each request in its own thread, each with its own database       *)
(* connection): a handler is one step per database statement or clock read *)
(* that another request can observe or disturb.  A handler whose only      *)
(* shared access is a single statement is one step.  Rows of the users     *)
(* table are never updated or deleted, so the lookup of g.user in          *)
(* before_request is merged into the handler's first step.                 *)
(*                                                                         *)
(* Flask keeps the session in a signed cookie of the browser; a request in *)
(* flight keeps the g.user it resolved when it started, so requests of     *)
(* different users interleave although the model has one browser, which    *)
(* logs in and out as different users.                                     *)
(*                                                                         *)
(* Of a journal row the model keeps journal_name, impact_factor and the    *)
(* columns the handlers compute; the other form fields are stored as       *)
(* typed and never read back by a handler.                                 *)
(***************************************************************************)
EXTENDS Integers, Sequences, FiniteSets, TLC

VARIABLES
    impl,      \* "sqlite" (src/author_informatinons/app.py) or "orm" (src/app.py)
    users,     \* table users: sequence of rows, the row's id is its index
    journals,  \* table journals: function from the ids present to rows
    seq,       \* AUTOINCREMENT counter of table journals (ids are never reused)
    clock,     \* the wall clock read by datetime.datetime.utcnow()
    cookie,    \* per browser: the user_id of its signed session cookie, 0 if none
    reqs,      \* per worker thread: the request it is serving
    resp       \* the request/response exchange completed last

vars == <<impl, users, journals, seq, clock, cookie, reqs, resp>>

(***************************************************************************)
(* Bounds of the model.                                                    *)
(***************************************************************************)
MaxClock == 1
MaxJournals == 1
MaxFlags == 2
MaxComments == 2

Clients == {1}
Reqs == {1, 2}

(***************************************************************************)
(* Inputs of the requests.  Strings that are only stored and compared are  *)
(* TLA+ strings; journal names and name queries are sequences of           *)
(* characters, because LIKE looks inside them.                             *)
(***************************************************************************)
\* What a browser types into the login form, and into the register form.
Logins ==
    { <<"admin", "admin123">>, <<"admin", "user123">>, <<"eve", "user123">> }
Registrations ==
    { <<"eve", "user123">>, <<"admin", "user123">>, <<"", "user123">>, <<"eve", "">> }
Texts == {"", "hi"}
JournalIds == 1..MaxJournals

\* A submitted form: journal_name and the impact_factor field as typed.
SubmitForms ==
    { [journal_name |-> <<"N", "a">>, impact_factor |-> "5"],
      [journal_name |-> <<"S", "c">>, impact_factor |-> ""],
      [journal_name |-> <<"a", "b">>, impact_factor |-> "n/a"] }
NoForm == [journal_name |-> <<>>, impact_factor |-> ""]

\* The query-string arguments of /search.
Searches ==
    { [journal_name |-> <<>>, impact_factor |-> ""],
      [journal_name |-> <<"n">>, impact_factor |-> ""],
      [journal_name |-> <<"_">>, impact_factor |-> ""],
      [journal_name |-> <<"c">>, impact_factor |-> "3"],
      [journal_name |-> <<>>, impact_factor |-> "-1"],
      [journal_name |-> <<>>, impact_factor |-> "abc"],
      [journal_name |-> <<>>, impact_factor |-> "nan"] }

(***************************************************************************)
(* werkzeug.security: a one-way hash and its check.                        *)
(***************************************************************************)
generate_password_hash(password) == <<"pbkdf2", password>>

check_password_hash_nocheck(pwhash, password) == TRUE
check_password_hash(pwhash, password) ==
    pwhash[1] = "pbkdf2" /\ pwhash[2] = password

(***************************************************************************)
(* datetime.isoformat / fromisoformat and json.dumps / json.loads: the     *)
(* sqlite application stores timestamps and the two logs as text.          *)
(***************************************************************************)
isoformat(t) == <<"iso", t>>
fromisoformat(s) == s[2]
\* (Both columns are written by every INSERT, so the handlers' "or '[]'" for
\* a NULL column never applies.)
json_dumps(list) == [json |-> list]
json_loads(s) == s.json

\* The time a stored created_at / last_updated column stands for: ISO text in
\* the sqlite application, a DateTime in the SQLAlchemy one.
StoredTime(v) == IF impl = "sqlite" THEN fromisoformat(v) ELSE v

(***************************************************************************)
(* The users both applications seed at start-up.                           *)
(***************************************************************************)
users_to_add ==
    << [username |-> "admin", password_hash |-> generate_password_hash("admin123"), role |-> "admin"],
       [username |-> "user1", password_hash |-> generate_password_hash("user123"), role |-> "user"],
       [username |-> "user2", password_hash |-> generate_password_hash("user123"), role |-> "user"] >>

\* init_db of the sqlite application seeds all three; the __main__ block of
\* the SQLAlchemy application seeds the admin alone.
init_db(i) == IF i = "sqlite" THEN users_to_add ELSE SubSeq(users_to_add, 1, 1)

IdleReq ==
    [pc |-> "idle", client |-> 0, user |-> 0, jid |-> 0, text |-> "", now |-> 0,
     journal |-> json_dumps(<<>>), username |-> "", password |-> "", form |-> NoForm]

NoResult == <<>>
\* An exchange: the route, the browser, g.user (0 for None), the journal id of
\* the URL, the form or query arguments, the outcome and the data rendered.
Response(op, c, u, j, args, out, res) ==
    [op |-> op, client |-> c, user |-> u, jid |-> j, args |-> args,
     outcome |-> out, result |-> res]

Init ==
    /\ impl \in {"sqlite", "orm"}
    /\ users = init_db(impl)
    /\ journals = <<>>
    /\ seq = 0
    /\ clock = 0
    /\ cookie = [c \in Clients |-> 0]
    /\ reqs = [r \in Reqs |-> IdleReq]
    /\ resp = Response("none", 0, 0, 0, <<>>, "none", NoResult)

(***************************************************************************)
(* Session and gate.                                                       *)
(***************************************************************************)
\* SELECT ... FROM users WHERE username = ?  (0 when no row)
UserByName(username) ==
    IF \E i \in 1..Len(users) : users[i].username = username
    THEN CHOOSE i \in 1..Len(users) : users[i].username = username
    ELSE 0

\* before_request: g.user is the row of the session's user_id, or None (0).
load_logged_in_user(user_id) ==
    IF user_id # 0 /\ user_id \in 1..Len(users) THEN user_id ELSE 0

\* login_required: TRUE when the view runs, FALSE when it redirects to login.
login_required(g_user) == g_user # 0

g_user(c) == load_logged_in_user(cookie[c])

\* The worker thread that takes the next multi-step request.
FreeReq == CHOOSE r \in Reqs : reqs[r].pc = "idle" /\ \A q \in Reqs : reqs[q].pc = "idle" => r <= q
HasFree == \E r \in Reqs : reqs[r].pc = "idle"

\* datetime.datetime.utcnow(): the clock does not run backwards.  Time that
\* passes without being read is not observable, so the clock advances (by at
\* most one unit) when it is read.
utcnow == { t \in clock..(clock + 1) : t <= MaxClock }

\* The gate's redirect of a content request without a resolved user.
Redirected(op, c, j) ==
    /\ resp' = Response(op, c, 0, j, <<>>, "redirect_login", NoResult)
    /\ UNCHANGED <<impl, users, journals, seq, clock, cookie, reqs>>

(***************************************************************************)
(* register, login, logout                                                 *)
(***************************************************************************)
\* POST /register up to and including the existence check (the SELECT).
register(c, username, password) ==
    LET u == g_user(c) IN
    IF u # 0
    THEN /\ resp' = Response("register", c, u, 0, <<username, password>>, "redirect_index", NoResult)
         /\ UNCHANGED <<impl, users, journals, seq, clock, cookie, reqs>>
    ELSE IF username = "" \/ password = ""
    THEN /\ resp' = Response("register", c, 0, 0, <<username, password>>, "ValidationError", NoResult)
         /\ UNCHANGED <<impl, users, journals, seq, clock, cookie, reqs>>
    ELSE IF UserByName(username) # 0
    THEN /\ resp' = Response("register", c, 0, 0, <<username, password>>, "ConflictError", NoResult)
         /\ UNCHANGED <<impl, users, journals, seq, clock, cookie, reqs>>
    ELSE /\ HasFree
         /\ reqs' = [reqs EXCEPT ![FreeReq] =
                        [IdleReq EXCEPT !.pc = "register_insert", !.client = c,
                                        !.username = username, !.password = password]]
         /\ UNCHANGED <<impl, users, journals, seq, clock, cookie, resp>>

\* The INSERT and commit of register.  users.username is UNIQUE: inserting a
\* name that another request inserted meanwhile raises IntegrityError, which
\* no handler catches (HTTP 500).
register_insert(r) ==
    /\ reqs[r].pc = "register_insert"
    /\ LET q == reqs[r] IN
       IF UserByName(q.username) # 0
       THEN /\ resp' = Response("register", q.client, 0, 0, <<q.username, q.password>>, "IntegrityError", NoResult)
            /\ users' = users
       ELSE /\ users' = Append(users, [username |-> q.username,
                                       password_hash |-> generate_password_hash(q.password),
                                       role |-> "user"])
            /\ resp' = Response("register", q.client, 0, 0, <<q.username, q.password>>, "registered", NoResult)
    /\ reqs' = [reqs EXCEPT ![r] = IdleReq]
    /\ UNCHANGED <<impl, journals, seq, clock, cookie>>

\* POST /login
login(c, username, password) ==
    LET u == g_user(c)
        user == UserByName(username)
    IN
    IF u # 0
    THEN /\ resp' = Response("login", c, u, 0, <<username, password>>, "redirect_index", NoResult)
         /\ UNCHANGED <<impl, users, journals, seq, clock, cookie, reqs>>
    ELSE IF user = 0 \/ ~check_password_hash(users[user].password_hash, password)
    THEN /\ resp' = Response("login", c, 0, 0, <<username, password>>, "AuthError", NoResult)
         /\ UNCHANGED <<impl, users, journals, seq, clock, cookie, reqs>>
    ELSE /\ cookie' = [cookie EXCEPT ![c] = user]
         /\ resp' = Response("login", c, 0, 0, <<username, password>>, "logged_in", NoResult)
         /\ UNCHANGED <<impl, users, journals, seq, clock, reqs>>

\* GET /logout
logout(c) ==
    /\ cookie' = [cookie EXCEPT ![c] = 0]
    /\ resp' = Response("logout", c, g_user(c), 0, <<>>, "logged_out", NoResult)
    /\ UNCHANGED <<impl, users, journals, seq, clock, reqs>>

(***************************************************************************)
(* The journals table.                                                     *)
(***************************************************************************)
Exists(j) == j \in DOMAIN journals

\* What a column with REAL affinity holds for a bound text value: text that
\* looks like a number becomes that number, any other text stays text, and
\* the handler binds None for an empty field.
Null == [t |-> "null", v |-> 0]
Numeric(s) == s \in {"-1", "0", "3", "5"}
ToInt(s) == CASE s = "-1" -> 0 - 1 [] s = "0" -> 0 [] s = "3" -> 3 [] s = "5" -> 5 [] OTHER -> 0
real_affinity(s) ==
    IF s = "" THEN Null
    ELSE IF Numeric(s) THEN [t |-> "real", v |-> ToInt(s)]
    ELSE [t |-> "text", v |-> 0]

\* Python's float(): [ok |-> FALSE] stands for ValueError.
float(s) ==
    IF Numeric(s) THEN [ok |-> TRUE, nan |-> FALSE, v |-> ToInt(s)]
    ELSE IF s = "nan" THEN [ok |-> TRUE, nan |-> TRUE, v |-> 0]
    ELSE [ok |-> FALSE, nan |-> FALSE, v |-> 0]

\* The update_history submit stores: one entry, the creation event.
initial_history_empty(now, author) == json_dumps(<<>>)
initial_history(now, author) ==
    json_dumps(<< [timestamp |-> isoformat(now), author |-> author, changes |-> "Initial creation."] >>)

InsertJournal(row) ==
    /\ seq' = seq + 1
    /\ journals' = [j \in DOMAIN journals \cup {seq + 1} |->
                        IF j = seq + 1 THEN row ELSE journals[j]]

InFlight(pcs) == { r \in Reqs : reqs[r].pc \in pcs }

(***************************************************************************)
(* Read-only content routes.                                               *)
(***************************************************************************)
\* The orders "ORDER BY last_updated DESC" may return the rows ids in: rows
\* with equal last_updated come in any order.
Descending(ids) ==
    { s \in [1..Cardinality(ids) -> ids] :
        /\ \A i, k \in 1..Cardinality(ids) : i # k => s[i] # s[k]
        /\ \A i, k \in 1..Cardinality(ids) :
              i < k => StoredTime(journals[s[i]].last_updated) >= StoredTime(journals[s[k]].last_updated) }

Summary(s) ==
    [i \in 1..Len(s) |-> [id |-> s[i], journal_name |-> journals[s[i]].journal_name,
                          impact_factor |-> journals[s[i]].impact_factor]]

\* GET /journals
journals_list(c) ==
    LET u == g_user(c) IN
    IF ~login_required(u) THEN Redirected("list", c, 0)
    ELSE /\ \E s \in Descending(DOMAIN journals) :
              resp' = Response("list", c, u, 0, <<>>, "ok", Summary(s))
         /\ UNCHANGED <<impl, users, journals, seq, clock, cookie, reqs>>

\* What the detail page shows: the row with its two logs decoded.
Decoded(row) ==
    IF impl = "sqlite"
    THEN [row EXCEPT
            !.update_history = [i \in 1..Len(json_loads(row.update_history)) |->
                [json_loads(row.update_history)[i] EXCEPT !.timestamp = fromisoformat(@)]],
            !.comments = [i \in 1..Len(json_loads(row.comments)) |->
                [json_loads(row.comments)[i] EXCEPT !.timestamp = fromisoformat(@)]]]
    ELSE [row EXCEPT !.update_history = json_loads(@), !.comments = json_loads(@)]

\* GET /journal/<id>
journal_detail(c, j) ==
    LET u == g_user(c) IN
    IF ~login_required(u) THEN Redirected("detail", c, j)
    ELSE /\ resp' = IF Exists(j)
                    THEN Response("detail", c, u, j, <<>>, "ok", Decoded(journals[j]))
                    ELSE Response("detail", c, u, j, <<>>, "NotFound", NoResult)
         /\ UNCHANGED <<impl, users, journals, seq, clock, cookie, reqs>>

\* SQLite's LIKE: % matches any run of characters, _ any one character, and
\* letters match without regard to case.
lower(ch) == CASE ch = "N" -> "n" [] ch = "S" -> "s" [] ch = "A" -> "a" [] OTHER -> ch

RECURSIVE Like(_, _)
Like(pat, str) ==
    IF pat = <<>> THEN str = <<>>
    ELSE IF Head(pat) = "%"
         THEN Like(Tail(pat), str) \/ (str # <<>> /\ Like(pat, Tail(str)))
         ELSE /\ str # <<>>
              /\ Head(pat) = "_" \/ lower(Head(pat)) = lower(Head(str))
              /\ Like(Tail(pat), Tail(str))

\* SQLite's comparison impact_factor >= ? with a REAL bound: NULL compares
\* as unknown (row excluded) and a TEXT value is greater than every number.
sql_ge(col, x) ==
    CASE col.t = "null" -> FALSE
      [] col.t = "text" -> TRUE
      [] OTHER -> col.v >= x

search_where(query_name, query_if, row) ==
    /\ query_name # <<>> => Like(<<"%">> \o query_name \o <<"%">>, row.journal_name)
    /\ (query_if # "" /\ float(query_if).ok /\ ~float(query_if).nan /\ float(query_if).v >= 0)
          => sql_ge(row.impact_factor, float(query_if).v)

\* GET /search (the sqlite application only)
search(c, query_name, query_if) ==
    LET u == g_user(c) IN
    /\ impl = "sqlite"
    /\ IF ~login_required(u) THEN Redirected("search", c, 0)
       ELSE /\ \E s \in Descending({ j \in DOMAIN journals : search_where(query_name, query_if, journals[j]) }) :
                 resp' = Response("search", c, u, 0, <<query_name, query_if>>, "ok", Summary(s))
            /\ UNCHANGED <<impl, users, journals, seq, clock, cookie, reqs>>

(***************************************************************************)
(* submit                                                                  *)
(***************************************************************************)
\* POST /submit of the sqlite application up to the INSERT: the gate and the
\* clock read.  The impact factor is bound as typed.
submit(c, form) ==
    LET u == g_user(c) IN
    /\ impl = "sqlite"
    /\ IF ~login_required(u) THEN Redirected("submit", c, 0)
       ELSE /\ seq + Cardinality(InFlight({"submit_insert"})) < MaxJournals
            /\ HasFree
            /\ \E now \in utcnow :
                 /\ clock' = now
                 /\ reqs' = [reqs EXCEPT ![FreeReq] =
                               [IdleReq EXCEPT !.pc = "submit_insert", !.client = c,
                                               !.user = u, !.form = form, !.now = now]]
            /\ UNCHANGED <<impl, users, journals, seq, cookie, resp>>

\* The row the sqlite application inserts: created_at, last_updated and the
\* history entry all carry the handler's now; flags_count takes DEFAULT 0.
sqlite_row(q) ==
    [journal_name |-> q.form.journal_name,
     impact_factor |-> real_affinity(q.form.impact_factor),
     created_at |-> isoformat(q.now),
     last_updated |-> isoformat(q.now),
     update_history |-> initial_history(q.now, users[q.user].username),
     flags_count |-> 0,
     comments |-> json_dumps(<<>>)]

\* The INSERT and commit of submit in the sqlite application.
submit_insert(r) ==
    /\ impl = "sqlite"
    /\ reqs[r].pc = "submit_insert"
    /\ InsertJournal(sqlite_row(reqs[r]))
    /\ resp' = Response("submit", reqs[r].client, reqs[r].user, seq + 1, <<>>, "submitted", NoResult)
    /\ reqs' = [reqs EXCEPT ![r] = IdleReq]
    /\ UNCHANGED <<impl, users, clock, cookie>>

\* POST /submit of the SQLAlchemy application up to the INSERT: the gate, the
\* clock read and float() of the impact factor, whose ValueError nothing
\* catches (HTTP 500).
orm_submit(c, form) ==
    LET u == g_user(c) IN
    /\ impl = "orm"
    /\ IF ~login_required(u) THEN Redirected("submit", c, 0)
       ELSE /\ seq + Cardinality(InFlight({"submit_insert"})) < MaxJournals
            /\ \E now \in utcnow :
                 /\ clock' = now
                 /\ IF form.impact_factor # "" /\ ~float(form.impact_factor).ok
                    THEN /\ resp' = Response("submit", c, u, 0, <<>>, "ValueError", NoResult)
                         /\ reqs' = reqs
                    ELSE /\ HasFree
                         /\ reqs' = [reqs EXCEPT ![FreeReq] =
                                       [IdleReq EXCEPT !.pc = "submit_insert", !.client = c,
                                                       !.user = u, !.form = form, !.now = now]]
                         /\ resp' = resp
            /\ UNCHANGED <<impl, users, journals, seq, cookie>>

\* The row the SQLAlchemy application inserts: created_at and last_updated
\* take the column default utcnow, evaluated at the INSERT (t); the history
\* entry carries the handler's now.
orm_row(q, t) ==
    [journal_name |-> q.form.journal_name,
     impact_factor |-> IF q.form.impact_factor = "" THEN Null
                       ELSE [t |-> "real", v |-> float(q.form.impact_factor).v],
     created_at |-> t,
     last_updated |-> t,
     update_history |-> initial_history(q.now, users[q.user].username),
     flags_count |-> 0,
     comments |-> json_dumps(<<>>)]

\* The INSERT and commit of submit in the SQLAlchemy application.
orm_submit_insert(r) ==
    /\ impl = "orm"
    /\ reqs[r].pc = "submit_insert"
    /\ \E t \in utcnow : InsertJournal(orm_row(reqs[r], t)) /\ clock' = t
    /\ resp' = Response("submit", reqs[r].client, reqs[r].user, seq + 1, <<>>, "submitted", NoResult)
    /\ reqs' = [reqs EXCEPT ![r] = IdleReq]
    /\ UNCHANGED <<impl, users, cookie>>

(***************************************************************************)
(* delete                                                                  *)
(***************************************************************************)
Remove(j) == [k \in DOMAIN journals \ {j} |-> journals[k]]

delete_allowed_anyone(role) == TRUE
delete_allowed(role) == role = "admin"

\* POST /journal/<id>/delete of the sqlite application: DELETE ... WHERE
\* id = ? and the report of success, whether or not a row matched.
delete_journal(c, j) ==
    LET u == g_user(c) IN
    /\ impl = "sqlite"
    /\ IF ~login_required(u) THEN Redirected("delete", c, j)
       ELSE IF ~delete_allowed(users[u].role)
       THEN /\ resp' = Response("delete", c, u, j, <<>>, "PermissionError", NoResult)
            /\ UNCHANGED <<impl, users, journals, seq, clock, cookie, reqs>>
       ELSE /\ journals' = Remove(j)
            /\ resp' = Response("delete", c, u, j, <<>>, "deleted", NoResult)
            /\ UNCHANGED <<impl, users, seq, clock, cookie, reqs>>

\* POST /journal/<id>/delete of the SQLAlchemy application: the row is looked
\* up first (get_or_404) and deleted in the same transaction.
orm_delete_journal(c, j) ==
    LET u == g_user(c) IN
    /\ impl = "orm"
    /\ IF ~login_required(u) THEN Redirected("delete", c, j)
       ELSE IF ~delete_allowed(users[u].role)
       THEN /\ resp' = Response("delete", c, u, j, <<>>, "PermissionError", NoResult)
            /\ UNCHANGED <<impl, users, journals, seq, clock, cookie, reqs>>
       ELSE IF ~Exists(j)
       THEN /\ resp' = Response("delete", c, u, j, <<>>, "NotFound", NoResult)
            /\ UNCHANGED <<impl, users, journals, seq, clock, cookie, reqs>>
       ELSE /\ journals' = Remove(j)
            /\ resp' = Response("delete", c, u, j, <<>>, "deleted", NoResult)
            /\ UNCHANGED <<impl, users, seq, clock, cookie, reqs>>

(***************************************************************************)
(* flag                                                                    *)
(***************************************************************************)
flags_update_reset(row) == [row EXCEPT !.flags_count = 1]
flags_update(row) == [row EXCEPT !.flags_count = @ + 1]

\* POST /journal/<id>/flag (the sqlite application only): one UPDATE, which
\* matches no row when the id is absent, then a redirect to the detail page.
flag_journal(c, j) ==
    LET u == g_user(c) IN
    /\ impl = "sqlite"
    /\ IF ~login_required(u) THEN Redirected("flag", c, j)
       ELSE /\ Exists(j) => journals[j].flags_count < MaxFlags
            /\ journals' = [k \in DOMAIN journals |->
                              IF k = j THEN flags_update(journals[k]) ELSE journals[k]]
            /\ resp' = Response("flag", c, u, j, <<>>, "redirect_detail", NoResult)
            /\ UNCHANGED <<impl, users, seq, clock, cookie, reqs>>

(***************************************************************************)
(* add_comment                                                             *)
(***************************************************************************)
CommentsOf(j) == IF Exists(j) THEN Len(json_loads(journals[j].comments)) ELSE 0
Commenting(j) == { r \in InFlight({"comment_select", "comment_update"}) : reqs[r].jid = j }

\* POST /journal/<id>/comment up to the SELECT (the sqlite application only):
\* the gate, the test of comment_text and the clock read.
add_comment(c, j, text) ==
    LET u == g_user(c) IN
    /\ impl = "sqlite"
    /\ IF ~login_required(u) THEN Redirected("comment", c, j)
       ELSE IF text = ""
       THEN /\ resp' = Response("comment", c, u, j, <<text>>, "redirect_detail", NoResult)
            /\ UNCHANGED <<impl, users, journals, seq, clock, cookie, reqs>>
       ELSE /\ CommentsOf(j) + Cardinality(Commenting(j)) < MaxComments
            /\ HasFree
            /\ \E now \in utcnow :
                 /\ clock' = now
                 /\ reqs' = [reqs EXCEPT ![FreeReq] =
                               [IdleReq EXCEPT !.pc = "comment_select", !.client = c, !.user = u,
                                               !.jid = j, !.text = text, !.now = now]]
            /\ UNCHANGED <<impl, users, journals, seq, cookie, resp>>

\* SELECT comments FROM journals WHERE id = ?
add_comment_select(r) ==
    /\ reqs[r].pc = "comment_select"
    /\ LET q == reqs[r] IN
       IF Exists(q.jid)
       THEN /\ reqs' = [reqs EXCEPT ![r] = [q EXCEPT !.pc = "comment_update",
                                                     !.journal = journals[q.jid].comments]]
            /\ resp' = resp
       ELSE /\ reqs' = [reqs EXCEPT ![r] = IdleReq]
            /\ resp' = Response("comment", q.client, q.user, q.jid, <<q.text>>, "redirect_detail", NoResult)
    /\ UNCHANGED <<impl, users, journals, seq, clock, cookie>>

comments_append_front(comments, entry) == <<entry>> \o comments
comments_append(comments, entry) == Append(comments, entry)

\* UPDATE journals SET comments = ?, last_updated = ? WHERE id = ? and commit:
\* the list read by the SELECT with the new entry appended is written back.
add_comment_update(r) ==
    /\ reqs[r].pc = "comment_update"
    /\ LET q == reqs[r]
           entry == [author |-> users[q.user].username, text |-> q.text,
                     timestamp |-> isoformat(q.now)]
           comments == comments_append(json_loads(q.journal), entry)
       IN
       /\ journals' = [k \in DOMAIN journals |->
                          IF k = q.jid
                          THEN [journals[k] EXCEPT !.comments = json_dumps(comments),
                                                   !.last_updated = isoformat(q.now)]
                          ELSE journals[k]]
       /\ resp' = Response("comment", q.client, q.user, q.jid, <<q.text>>, "redirect_detail", NoResult)
    /\ reqs' = [reqs EXCEPT ![r] = IdleReq]
    /\ UNCHANGED <<impl, users, seq, clock, cookie>>

Next ==
    \/ \E c \in Clients, f \in Registrations : register(c, f[1], f[2])
    \/ \E r \in Reqs : register_insert(r)
    \/ \E c \in Clients, f \in Logins : login(c, f[1], f[2])
    \/ \E c \in Clients : logout(c)
    \/ \E c \in Clients : journals_list(c)
    \/ \E c \in Clients, j \in JournalIds : journal_detail(c, j)
    \/ \E c \in Clients, q \in Searches : search(c, q.journal_name, q.impact_factor)
    \/ \E c \in Clients, f \in SubmitForms : submit(c, f)
    \/ \E r \in Reqs : submit_insert(r)
    \/ \E c \in Clients, f \in SubmitForms : orm_submit(c, f)
    \/ \E r \in Reqs : orm_submit_insert(r)
    \/ \E c \in Clients, j \in JournalIds : delete_journal(c, j)
    \/ \E c \in Clients, j \in JournalIds : orm_delete_journal(c, j)
    \/ \E c \in Clients, j \in JournalIds : flag_journal(c, j)
    \/ \E c \in Clients, j \in JournalIds, t \in Texts : add_comment(c, j, t)
    \/ \E r \in Reqs : add_comment_select(r)
    \/ \E r \in Reqs : add_comment_update(r)

Spec == Init /\ [][Next]_vars

(***************************************************************************)
(* The same application serving one request at a time: a request starts    *)
(* only when no other is in flight, and runs to its response.              *)
(***************************************************************************)
AllIdle == \A r \in Reqs : reqs[r].pc = "idle"

NextSeq ==
    \/ AllIdle /\ \E c \in Clients, f \in Registrations : register(c, f[1], f[2])
    \/ \E r \in Reqs : register_insert(r)
    \/ AllIdle /\ \E c \in Clients, f \in Logins : login(c, f[1], f[2])
    \/ AllIdle /\ \E c \in Clients : logout(c)
    \/ AllIdle /\ \E c \in Clients : journals_list(c)
    \/ AllIdle /\ \E c \in Clients, j \in JournalIds : journal_detail(c, j)
    \/ AllIdle /\ \E c \in Clients, q \in Searches : search(c, q.journal_name, q.impact_factor)
    \/ AllIdle /\ \E c \in Clients, f \in SubmitForms : submit(c, f)
    \/ \E r \in Reqs : submit_insert(r)
    \/ AllIdle /\ \E c \in Clients, f \in SubmitForms : orm_submit(c, f)
    \/ \E r \in Reqs : orm_submit_insert(r)
    \/ AllIdle /\ \E c \in Clients, j \in JournalIds : delete_journal(c, j)
    \/ AllIdle /\ \E c \in Clients, j \in JournalIds : orm_delete_journal(c, j)
    \/ AllIdle /\ \E c \in Clients, j \in JournalIds : flag_journal(c, j)
    \/ AllIdle /\ \E c \in Clients, j \in JournalIds, t \in Texts : add_comment(c, j, t)
    \/ \E r \in Reqs : add_comment_select(r)
    \/ \E r \in Reqs : add_comment_update(r)

SpecSeq == Init /\ [][NextSeq]_vars

(***************************************************************************)
(* Vocabulary of the properties.                                           *)
(***************************************************************************)
\* The step sends a response: no request moves to a later statement.
Responds == \A r \in Reqs : reqs'[r] = reqs[r] \/ reqs'[r].pc = "idle"
\* The step sends the response of route op.
Answers(op) == Responds /\ resp'.op = op
\* The step finishes the multi-step request of thread r at statement pc.
Finishes(r, pc) == reqs[r].pc = pc /\ reqs'[r].pc = "idle"
\* The step is the first step of a multi-step request taken by thread r.
Starts(r) == reqs[r].pc = "idle" /\ reqs'[r].pc # "idle"

ContentOps == {"list", "detail", "search", "submit", "delete", "flag", "comment"}
IsUser(u) == u \in 1..Len(users)
Resolved(c) == cookie[c] # 0 /\ IsUser(cookie[c])

\* get(id): what the detail page shows of row j of a journals table.
Get(table, j) == Decoded(table[j])

(***************************************************************************)
(* C1  Authentication gate.                                                *)
(***************************************************************************)
\* C1: a content operation is carried out only for a request whose session
\* holds the id of an existing user; the session gets a user id only from a
\* login whose username exists and whose password matches that user's hash,
\* and keeps it until a logout; a content request without a resolved user is
\* redirected to login and changes neither the journals nor the users.
C1_AuthGate ==
    [][ /\ \A c \in Clients : cookie'[c] # cookie[c] =>
              \/ cookie'[c] = 0 /\ Answers("logout") /\ resp'.client = c
              \/ /\ Answers("login") /\ resp'.client = c /\ resp'.outcome = "logged_in"
                 /\ IsUser(cookie'[c])
                 /\ users[cookie'[c]].username = resp'.args[1]
                 /\ users[cookie'[c]].password_hash = generate_password_hash(resp'.args[2])
        /\ \A r \in Reqs : (Starts(r) /\ reqs'[r].pc \in {"submit_insert", "comment_select"}) =>
              /\ Resolved(reqs'[r].client)
              /\ reqs'[r].user = cookie[reqs'[r].client]
        /\ \A r \in Reqs : (reqs[r].pc \in {"submit_insert", "comment_select", "comment_update"}
                            /\ reqs'[r].pc = "idle") =>
              /\ IsUser(reqs[r].user)
              /\ resp'.op \in ContentOps /\ resp'.user = reqs[r].user
              /\ resp'.outcome # "redirect_login"
        /\ (resp'.op \in ContentOps /\ reqs' = reqs) =>
              IF Resolved(resp'.client)
              THEN resp'.outcome # "redirect_login" /\ resp'.user = cookie[resp'.client]
              ELSE /\ resp'.outcome = "redirect_login" /\ resp'.user = 0
                   /\ journals' = journals /\ users' = users
        /\ journals' # journals =>
              /\ Responds /\ resp'.op \in ContentOps
              /\ IsUser(resp'.user) /\ resp'.outcome # "redirect_login"
      ]_vars

\* A content request is redirected to login after a logout, in a state whose
\* journal was submitted, and whose new user registered, while logged in and out.
C1_Witness ==
    /\ resp.op \in ContentOps /\ resp.outcome = "redirect_login"
    /\ cookie[resp.client] = 0
    /\ journals # <<>>
    /\ Len(users) > Len(init_db(impl))

(***************************************************************************)
(* C2  Only an admin deletes.                                              *)
(***************************************************************************)
\* C2: delete of an existing record by an authenticated requester whose role
\* is not admin answers with a permission error and leaves the record as get
\* showed it before; a record leaves the store only in a delete by an admin.
C2_DeleteNeedsAdmin ==
    [][ /\ (/\ Answers("delete") /\ IsUser(resp'.user)
            /\ users[resp'.user].role # "admin" /\ Exists(resp'.jid)) =>
              /\ resp'.outcome = "PermissionError"
              /\ resp'.jid \in DOMAIN journals'
              /\ journals'[resp'.jid] = journals[resp'.jid]
              /\ Get(journals', resp'.jid) = Get(journals, resp'.jid)
        /\ \A j \in DOMAIN journals \ DOMAIN journals' :
              /\ Answers("delete") /\ resp'.jid = j /\ resp'.outcome = "deleted"
              /\ IsUser(resp'.user) /\ users[resp'.user].role = "admin"
      ]_vars

\* A non-admin has just been refused the delete of a record that exists.
C2_Witness ==
    /\ resp.op = "delete" /\ resp.outcome = "PermissionError"
    /\ IsUser(resp.user) /\ users[resp.user].role = "user"
    /\ Exists(resp.jid)

(***************************************************************************)
(* C3  Concurrent comments.                                                *)
(***************************************************************************)
\* C3: no appended comment is lost when add_comment requests on one existing
\* record interleave: every add_comment that completes on the record leaves
\* the stored comments as they were with one entry, its own, added at the
\* end (so entries already present stay, in their order).
C3_NoLostComment ==
    [][ \A r \in Reqs : (Finishes(r, "comment_update") /\ Exists(reqs[r].jid)) =>
            LET q == reqs[r]
                before == Get(journals, q.jid).comments
                after == Get(journals', q.jid).comments
            IN  /\ Len(after) = Len(before) + 1
                /\ SubSeq(after, 1, Len(before)) = before
                /\ after[Len(after)].author = users[q.user].username
                /\ after[Len(after)].text = q.text
      ]_vars

(***************************************************************************)
(* C4  Sequential comments.                                                *)
(***************************************************************************)
\* C4: with requests served one after another, each add_comment with
\* non-empty text on an existing record appends exactly its entry (caller's
\* username, text, timestamp) to what get showed before, nothing else changes
\* the comments, so after N calls get shows N entries in call order;
\* last_updated is the timestamp of the last comment; an add_comment with
\* empty text changes nothing in the store.
C4_SequentialComments ==
    [][ /\ \A r \in Reqs : (Finishes(r, "comment_update") /\ Exists(reqs[r].jid)) =>
              LET q == reqs[r]
                  before == Get(journals, q.jid).comments
                  after == Get(journals', q.jid).comments
              IN  /\ q.text # ""
                  /\ q.jid \in DOMAIN journals'
                  /\ after = Append(before, [author |-> users[q.user].username,
                                             text |-> q.text, timestamp |-> q.now])
                  /\ StoredTime(journals'[q.jid].last_updated) = q.now
        /\ \A j \in DOMAIN journals \cap DOMAIN journals' :
              journals'[j].comments # journals[j].comments =>
                  \E r \in Reqs : Finishes(r, "comment_update") /\ reqs[r].jid = j
        /\ \A j \in DOMAIN journals' \ DOMAIN journals : Get(journals', j).comments = <<>>
        /\ (Answers("comment") /\ resp'.args = <<"">>) =>
              journals' = journals /\ users' = users
        /\ \A j \in DOMAIN journals' :
              LET cs == Get(journals', j).comments IN
              cs # <<>> => StoredTime(journals'[j].last_updated) = cs[Len(cs)].timestamp
      ]_vars

\* Two comments with different timestamps have been added, one request after
\* the other, and the second has just been answered.
C4_Witness ==
    /\ AllIdle
    /\ resp.op = "comment" /\ resp.args = <<"hi">> /\ Exists(resp.jid)
    /\ LET cs == Get(journals, resp.jid).comments IN
       /\ Len(cs) = 2
       /\ cs[1].timestamp < cs[2].timestamp
       /\ cs[2].author = users[resp.user].username

(***************************************************************************)
(* C5  Unique usernames.                                                   *)
(***************************************************************************)
\* C5: no two users share a username; a register with a username that exists
\* when the registration is decided answers with the conflict error and
\* leaves the users as they were; a register with an empty username or an
\* empty password creates no user.
C5_RegisterConflict ==
    [][ /\ \A i, k \in 1..Len(users') : users'[i].username = users'[k].username => i = k
        /\ SubSeq(users', 1, Len(users)) = users
        /\ (Answers("register") /\ resp'.user = 0) =>
              LET username == resp'.args[1]
                  password == resp'.args[2]
              IN  /\ (username = "" \/ password = "") => users' = users
                  /\ (username # "" /\ password # "" /\ UserByName(username) # 0) =>
                        resp'.outcome = "ConflictError" /\ users' = users
      ]_vars

(***************************************************************************)
(* C6  Flags.                                                              *)
(***************************************************************************)
\* C6: a flag of an existing record adds exactly 1 to its flags_count and
\* changes no other field of it (not last_updated); flags_count changes in
\* no other step, so N flags raise it by N however they interleave with each
\* other and with comments; it never decreases and is never negative.
C6_FlagCounts ==
    [][ /\ (Answers("flag") /\ resp'.outcome # "redirect_login" /\ Exists(resp'.jid)) =>
              /\ resp'.jid \in DOMAIN journals'
              /\ journals'[resp'.jid] =
                    [journals[resp'.jid] EXCEPT !.flags_count = journals[resp'.jid].flags_count + 1]
        /\ \A j \in DOMAIN journals \cap DOMAIN journals' :
              /\ journals'[j].flags_count >= journals[j].flags_count
              /\ journals'[j].flags_count # journals[j].flags_count =>
                    Answers("flag") /\ resp'.jid = j
        /\ \A j \in DOMAIN journals' : journals'[j].flags_count >= 0
      ]_vars

\* A record has just been flagged for the second time, with a comment added
\* between or around the flags.
C6_Witness ==
    /\ resp.op = "flag" /\ resp.outcome = "redirect_detail" /\ Exists(resp.jid)
    /\ journals[resp.jid].flags_count = 2
    /\ Get(journals, resp.jid).comments # <<>>

(***************************************************************************)
(* C7  Creation seeds the history.                                         *)
(***************************************************************************)
\* C7: the record a successful submit creates has, as get shows it, exactly
\* one history entry, authored by the submitting user with description
\* "Initial creation.", no comments and flags_count 0; and a record that
\* stays in the store keeps that first history entry.
C7_InitialHistory ==
    [][ /\ \A j \in DOMAIN journals' \ DOMAIN journals :
              LET rec == Get(journals', j) IN
              /\ Answers("submit") /\ resp'.outcome = "submitted" /\ resp'.jid = j
              /\ IsUser(resp'.user)
              /\ Len(rec.update_history) = 1
              /\ rec.update_history[1].author = users[resp'.user].username
              /\ rec.update_history[1].changes = "Initial creation."
              /\ rec.comments = <<>>
              /\ rec.flags_count = 0
        /\ (Answers("submit") /\ resp'.outcome = "submitted") =>
              resp'.jid \in DOMAIN journals' \ DOMAIN journals
        /\ \A j \in DOMAIN journals \cap DOMAIN journals' :
              /\ Len(Get(journals', j).update_history) >= 1
              /\ Get(journals', j).update_history[1] = Get(journals, j).update_history[1]
      ]_vars

\* A submit has just been answered and its record is in the store.
C7_Witness ==
    /\ resp.op = "submit" /\ resp.outcome = "submitted"
    /\ Exists(resp.jid)
    /\ Len(Get(journals, resp.jid).update_history) = 1

(***************************************************************************)
(* C8  Delete and flag of an absent id.                                    *)
(***************************************************************************)
\* The outcome a browser sees: the redirect of flag leads to the detail page
\* of the id, which answers "Journal not found" when the id is absent.
NotFoundOutcome(r, table) ==
    \/ r.outcome = "NotFound"
    \/ r.outcome = "redirect_detail" /\ r.jid \notin DOMAIN table

\* C8: delete (by an admin) and flag (by any user) of an id that is not in
\* the store end in a not-found outcome, not in a report of success, and
\* leave the store unchanged.
C8_AbsentIdNotFound ==
    [][ /\ (/\ Answers("delete") /\ IsUser(resp'.user)
            /\ users[resp'.user].role = "admin" /\ ~Exists(resp'.jid)) =>
              NotFoundOutcome(resp', journals') /\ journals' = journals
        /\ (/\ Answers("flag") /\ IsUser(resp'.user) /\ ~Exists(resp'.jid)) =>
              NotFoundOutcome(resp', journals') /\ journals' = journals
      ]_vars

(***************************************************************************)
(* C9  last_updated.                                                       *)
(***************************************************************************)
\* C9: of every record, last_updated is at least created_at, and
\* last_updated never decreases from one state to the next.
C9_LastUpdatedMonotone ==
    [][ /\ \A j \in DOMAIN journals' :
              StoredTime(journals'[j].last_updated) >= StoredTime(journals'[j].created_at)
        /\ \A j \in DOMAIN journals \cap DOMAIN journals' :
              StoredTime(journals'[j].last_updated) >= StoredTime(journals[j].last_updated)
      ]_vars

(***************************************************************************)
(* C10  Search.                                                            *)
(***************************************************************************)
\* name contains the substring q (letters compared without regard to case)
Contains(name, q) ==
    \E i \in 0..(Len(name) - Len(q)) :
        \A k \in 1..Len(q) : lower(name[i + k]) = lower(q[k])

\* The minimum a search gives, when it parses as a non-negative number.
HasMinimum(s) == s # "" /\ float(s).ok /\ ~float(s).nan /\ float(s).v >= 0

\* The records the search for name substring q and minimum s is to return.
Matching(q, s) ==
    { j \in DOMAIN journals :
        /\ q # <<>> => Contains(journals[j].journal_name, q)
        /\ HasMinimum(s) => /\ journals[j].impact_factor.t = "real"
                            /\ journals[j].impact_factor.v >= float(s).v }

\* C10: search returns exactly the records whose name contains the given
\* substring and whose impact factor is at least the given minimum (a
\* malformed or negative minimum is ignored), each once, ordered by
\* last_updated descending.
C10_SearchExact ==
    [][ (Answers("search") /\ resp'.outcome = "ok") =>
            LET res == resp'.result IN
            /\ { res[i].id : i \in 1..Len(res) } = Matching(resp'.args[1], resp'.args[2])
            /\ Len(res) = Cardinality(Matching(resp'.args[1], resp'.args[2]))
            /\ \A i, k \in 1..Len(res) :
                  i < k => StoredTime(journals[res[i].id].last_updated)
                             >= StoredTime(journals[res[k].id].last_updated)
      ]_vars
====
